---- MODULE Spec2Model ----
(***************************************************************************)
(* Model of the lol_arena placement predictor:                             *)
(*   backend/data_collection/predict_service.py  (stdin service)           *)
(*   backend/predict_service.py                  (argv service)            *)
(*   backend/data_collection/ml_model.py         (trainer)                 *)
(*   backend/data_collection/teamStats.py        (team aggregation)        *)
(* One invocation of one program is one run from the idle state.           *)
(* Probabilities are integers in 0..Scale (probability * Scale).           *)
(***************************************************************************)
EXTENDS Integers, Sequences, FiniteSets, TLC

VARIABLES
    prog,                 \* which program this process runs
    pc,                   \* its position
    artifact,             \* the file arena_win_predictor_model.joblib
    batchFlag,            \* '--batch' in sys.argv
    stdin,                \* the payload (stdin, or argv[1] of the argv service)
    model,                \* the loaded estimator
    stdout,               \* documents printed on standard output
    stderr,               \* lines printed on standard error
    exitCode,             \* <<>> while running, <<code>> once the process ended
    modelCalled,          \* model.predict / predict_proba has been called
    preds,                \* what model.predict returned in this invocation
    probs,                \* what model.predict_proba returned
    sweepIdx,             \* trainer: position in the max_depth list
    best_accuracy,
    best_max_depth,
    best_model_pipeline,
    outcomes,             \* trainer: what each candidate did (history)
    dumps,                \* trainer: joblib.dump calls, in order
    log,                  \* trainer: the messages of the save block
    csv_content,          \* teamStats: the CSV text given to combine_team_stats
    team_data             \* teamStats: the rows of the frame it returns

svcVars == <<artifact, batchFlag, stdin, model, stdout, stderr, exitCode,
             modelCalled, preds, probs>>
trainVars == <<sweepIdx, best_accuracy, best_max_depth, best_model_pipeline,
               outcomes, dumps, log>>
teamVars == <<csv_content, team_data>>
vars == <<prog, pc, artifact, batchFlag, stdin, model, stdout, stderr, exitCode,
          modelCalled, preds, probs, sweepIdx, best_accuracy, best_max_depth,
          best_model_pipeline, outcomes, dumps, log, csv_content, team_data>>

----------------------------------------------------------------------------
(* Bounds of the model *)

MaxBatch == 2
MaxMissing == 2
MaxAcc == 2
MaxRows == 3
Scale == 10

----------------------------------------------------------------------------
(* Program constants *)

features == <<"championId", "kills", "deaths", "assists",
              "totalDamageDealt", "totalDamageTaken", "goldEarned">>

FEATURES == <<"championId", "kills", "deaths", "assists",
              "totalDamageDealt", "totalDamageTaken", "goldEarned">>

FeatureSet == {features[i] : i \in 1..Len(features)}

num_class == 8

Placements == 1..num_class

\* ml_model.py: y = data['placement'] - 1
TrainLabel(placement) == placement - 1

\* the label space of the artifact the trainer writes
Classes == {TrainLabel(p) : p \in Placements}

MaxDepths == <<2, 4, 6, 8, 10>>

----------------------------------------------------------------------------
(* The payloads. A JSON object is abstracted to the feature keys it        *)
(* carries, its matchId (or Absent), whether its feature values are        *)
(* numbers, and a tag fv standing for the numbers themselves.              *)

Null == "null"
Absent == "absent"
MatchIds == {"m1", "m2"}
FVs == {0, 1}

KeySets(maxMissing) ==
    {FeatureSet \ m : m \in {s \in SUBSET FeatureSet : Cardinality(s) <= maxMissing}}

Obj(keys, mid, fv, numeric) ==
    [kind |-> "object", keys |-> keys, matchId |-> mid, fv |-> fv, numeric |-> numeric]

\* objects given alone (single mode, argv)
TopObjects ==
    {Obj(k, mid, fv, TRUE) : k \in KeySets(MaxMissing), mid \in {Absent, "m1"}, fv \in FVs}
    \cup {Obj(FeatureSet, Absent, 0, FALSE)}

\* elements of a batch: objects omitting the first and/or the last feature or
\* none, an object with a string for a feature value, a nested list of seven
\* numbers, a bare number
ItemKeySets ==
    {FeatureSet \ m : m \in SUBSET {features[1], features[Len(features)]}}

Items ==
    {Obj(k, mid, fv, TRUE) : k \in ItemKeySets, mid \in MatchIds \cup {Absent}, fv \in FVs}
    \cup {Obj(FeatureSet, "m1", 0, FALSE)}
    \cup {[kind |-> "row", fv |-> 0], [kind |-> "scalar"]}

Arrays(n) ==
    UNION {{[kind |-> "array", items |-> s] : s \in [1..len -> Items]} : len \in 0..n}

Scalar == [kind |-> "scalar"]
NotJson == [kind |-> "invalid"]
NotUtf8 == [kind |-> "undecodable"]

JsonValues(n) == TopObjects \cup Arrays(n) \cup {Scalar}

\* what the stdin service may be given
Payloads(batch) ==
    {NotJson, NotUtf8} \cup JsonValues(IF batch THEN MaxBatch ELSE 1)

\* what the argv service may be given as argv[1]
ArgPayloads == {NotJson} \cup JsonValues(1)

----------------------------------------------------------------------------
(* The artifact file and the estimator in it. A fitted estimator is        *)
(* a deterministic function of a frame row; base picks one from a family.  *)

NoModel == [loaded |-> FALSE, base |-> 0]
Fitted(base) == [loaded |-> TRUE, base |-> base]

ArtifactFiles ==
    {[state |-> "missing", base |-> 0], [state |-> "corrupt", base |-> 0]}
    \cup {[state |-> "ok", base |-> b] : b \in Classes}

\* a frame row: the row's numbers, and the columns that are NaN
Row(fv, numeric, nan) == [fv |-> fv, numeric |-> numeric, nan |-> nan]

Classify(m, row) == (m.base + row.fv + Cardinality(row.nan)) % num_class

Proba(m, row) ==
    LET k == Classify(m, row)
        peak == Scale - (row.fv + 1)
    IN [c \in Classes |->
          IF c = k THEN peak
          ELSE IF c = (k + 1) % num_class THEN Scale - peak
          ELSE 0]

Ok(fields) == [ok |-> TRUE] @@ fields
Raise(exc, arg) == [ok |-> FALSE, exc |-> exc, arg |-> arg]

\* model.predict(X) and model.predict_proba(X): the estimator rejects a frame
\* with a non-numeric column; emptyOk says whether it accepts a frame of no rows
Infer(m, rows, emptyOk) ==
    IF ~m.loaded THEN Raise("NameError", "model")
    ELSE IF Len(rows) = 0 /\ ~emptyOk THEN Raise("ValueError", "empty")
    ELSE IF \E i \in 1..Len(rows) : ~rows[i].numeric THEN Raise("ValueError", "dtype")
    ELSE Ok([preds |-> [i \in 1..Len(rows) |-> Classify(m, rows[i])],
             probs |-> [i \in 1..Len(rows) |-> Proba(m, rows[i])]])

----------------------------------------------------------------------------
(* Documents *)

Fail(text, detail) == [success |-> FALSE, error |-> [text |-> text, detail |-> detail]]

NotFoundDoc ==
    Fail("Model file 'arena_win_predictor_model.joblib' not found.", "")

InvalidJsonDoc == Fail("Invalid JSON input.", "")

\* the two except clauses shared by predict_batch and predict_single
ExceptDoc(r) ==
    IF r.exc = "KeyError"
    THEN Fail("Required feature missing from input data: ", r.arg)
    ELSE Fail("An unexpected error occurred: ", r.exc)

----------------------------------------------------------------------------
(* backend/data_collection/predict_service.py *)

\* predicted_placement = pred + 1
Placement(pred) == pred + 1

ConfidenceAtDisplayIndex(row, pred) == row[(pred + 1) % num_class]

\* confidence = float(probs[pred])
Confidence(row, pred) == row[pred]

RECURSIVE FirstMissing(_, _)
\* the first f in features with f not in keys (0: none): where input_data[f] raises
FirstMissing(keys, i) ==
    IF i > Len(features) THEN 0
    ELSE IF features[i] \notin keys THEN i
    ELSE FirstMissing(keys, i + 1)

\* a frame that fills an absent key with NaN, as pd.DataFrame([d], columns=...)
LenientSingleFrame(input_data) ==
    IF input_data.kind # "object" THEN Raise("TypeError", "")
    ELSE Ok([rows |-> <<Row(input_data.fv, input_data.numeric,
                            FeatureSet \ input_data.keys)>>])

\* pd.DataFrame([[input_data[f] for f in features]], columns=features)
SingleFrame(input_data) ==
    IF input_data.kind # "object" THEN Raise("TypeError", "")
    ELSE LET m == FirstMissing(input_data.keys, 1) IN
         IF m # 0 THEN Raise("KeyError", features[m])
         ELSE Ok([rows |-> <<Row(input_data.fv, input_data.numeric, {})>>])

Handled(doc, called, p, q) ==
    [doc |-> doc, called |-> called, preds |-> p, probs |-> q]

predict_single(m, input_data) ==
    LET fr == SingleFrame(input_data) IN
    IF ~fr.ok THEN Handled(ExceptDoc(fr), FALSE, <<>>, <<>>)
    ELSE LET inf == Infer(m, fr.rows, FALSE) IN
         IF ~inf.ok THEN Handled(ExceptDoc(inf), m.loaded, <<>>, <<>>)
         ELSE Handled([success |-> TRUE,
                       placement |-> Placement(inf.preds[1]),
                       confidence |-> Confidence(inf.probs[1], inf.preds[1])],
                      TRUE, inf.preds, inf.probs)

\* X = pd.DataFrame(matches, columns=features): a list of dicts gives one row
\* per dict, NaN where a key is absent; a list of lists gives one row per list;
\* anything else (a dict of scalars, a scalar, a mixed list) raises
BatchFrame(matches) ==
    IF matches.kind # "array" THEN Raise("ValueError", "")
    ELSE LET it == matches.items
             n == Len(it)
         IN IF n = 0 THEN Ok([rows |-> <<>>])
            ELSE IF it[1].kind = "object"
            THEN IF \A i \in 1..n : it[i].kind = "object"
                 THEN Ok([rows |-> [i \in 1..n |->
                            Row(it[i].fv, it[i].numeric, FeatureSet \ it[i].keys)]])
                 ELSE Raise("TypeError", "")
            ELSE IF it[1].kind = "row"
            THEN IF \A i \in 1..n : it[i].kind = "row"
                 THEN Ok([rows |-> [i \in 1..n |-> Row(it[i].fv, TRUE, {})]])
                 ELSE IF \E i \in 1..n : it[i].kind = "scalar"
                 THEN Raise("TypeError", "")
                 ELSE Raise("ValueError", "")
            ELSE Raise("ValueError", "")

\* match.get('matchId')
GetMatchId(match) == IF match.matchId = Absent THEN Null ELSE match.matchId

\* a result entry that takes matchId from the first match of the batch
ResultFromFirst(matches, p, q, i) ==
    [matchId |-> GetMatchId(matches.items[1]),
     placement |-> Placement(p[i]),
     confidence |-> Confidence(q[i], p[i])]

\* the dict appended for match i
Result(matches, p, q, i) ==
    [matchId |-> GetMatchId(matches.items[i]),
     placement |-> Placement(p[i]),
     confidence |-> Confidence(q[i], p[i])]

RECURSIVE BuildResults(_, _, _, _, _)
\* for i, match in enumerate(matches): ... results.append(...)
BuildResults(matches, p, q, i, results) ==
    IF i > Len(matches.items) THEN Ok([results |-> results])
    ELSE IF matches.items[i].kind # "object"
    THEN Raise("AttributeError", "get") @@ [results |-> results]
    ELSE BuildResults(matches, p, q, i + 1,
                      Append(results, Result(matches, p, q, i)))

\* a failure document that carries the results built so far
BatchFailurePartial(r, results) == ExceptDoc(r) @@ [results |-> results]

\* the except clauses of predict_batch: results is dropped
BatchFailure(r, results) == ExceptDoc(r)

predict_batch(m, matches, emptyOk) ==
    LET fr == BatchFrame(matches) IN
    IF ~fr.ok THEN Handled(BatchFailure(fr, <<>>), FALSE, <<>>, <<>>)
    ELSE LET inf == Infer(m, fr.rows, emptyOk) IN
         IF ~inf.ok THEN Handled(BatchFailure(inf, <<>>), m.loaded, <<>>, <<>>)
         ELSE LET b == BuildResults(matches, inf.preds, inf.probs, 1, <<>>) IN
              IF ~b.ok
              THEN Handled(BatchFailure(b, b.results), TRUE, inf.preds, inf.probs)
              ELSE Handled([success |-> TRUE, results |-> b.results],
                           TRUE, inf.preds, inf.probs)

Loaded(out, err, exit, m) == [out |-> out, err |-> err, exit |-> exit, model |-> m]

\* a load block whose FileNotFoundError handler prints and does not exit
LoadServiceNoExit(art) ==
    IF art.state = "missing" THEN Loaded(<<NotFoundDoc>>, <<>>, <<>>, NoModel)
    ELSE IF art.state = "corrupt" THEN Loaded(<<>>, <<"Traceback">>, <<1>>, NoModel)
    ELSE Loaded(<<>>, <<>>, <<>>, Fitted(art.base))

\* try: model = joblib.load(model_path) / except FileNotFoundError: print, exit(1)
\* any other exception of joblib.load is not caught: traceback, exit status 1
LoadService(art) ==
    IF art.state = "missing" THEN Loaded(<<NotFoundDoc>>, <<>>, <<1>>, NoModel)
    ELSE IF art.state = "corrupt" THEN Loaded(<<>>, <<"Traceback">>, <<1>>, NoModel)
    ELSE Loaded(<<>>, <<>>, <<>>, Fitted(art.base))

\* the module-level statements of the stdin service, run at process start
ServiceLoad ==
    /\ pc = "idle"
    /\ \E art \in ArtifactFiles, batch \in BOOLEAN :
         LET l == LoadService(art) IN
         /\ prog' = "service"
         /\ artifact' = art
         /\ batchFlag' = batch
         /\ model' = l.model
         /\ stdout' = l.out
         /\ stderr' = l.err
         /\ exitCode' = l.exit
         /\ pc' = IF l.exit = <<>> THEN "main" ELSE "exited"
    /\ UNCHANGED <<stdin, modelCalled, preds, probs>>
    /\ UNCHANGED trainVars
    /\ UNCHANGED teamVars

\* the __main__ block of the stdin service
ServiceMain ==
    /\ prog = "service"
    /\ pc = "main"
    /\ \E input \in Payloads(batchFlag), emptyOk \in BOOLEAN :
         /\ emptyOk => (batchFlag /\ input.kind = "array" /\ Len(input.items) = 0)
         /\ stdin' = input
         /\ IF input.kind = "undecodable"
            THEN /\ stderr' = Append(stderr, "Traceback")
                 /\ exitCode' = <<1>>
                 /\ UNCHANGED <<stdout, modelCalled, preds, probs>>
            ELSE IF input.kind = "invalid"
            THEN /\ stdout' = Append(stdout, InvalidJsonDoc)
                 /\ exitCode' = <<0>>
                 /\ UNCHANGED <<stderr, modelCalled, preds, probs>>
            ELSE LET h == IF batchFlag THEN predict_batch(model, input, emptyOk)
                          ELSE predict_single(model, input)
                 IN /\ stdout' = Append(stdout, h.doc)
                    /\ modelCalled' = h.called
                    /\ preds' = h.preds
                    /\ probs' = h.probs
                    /\ exitCode' = <<0>>
                    /\ UNCHANGED stderr
    /\ pc' = "exited"
    /\ UNCHANGED <<prog, artifact, batchFlag, model>>
    /\ UNCHANGED trainVars
    /\ UNCHANGED teamVars

----------------------------------------------------------------------------
(* backend/predict_service.py *)

NoArg == [kind |-> "noarg"]

\* try: joblib.load / except FileNotFoundError: exit(1) / except Exception: exit(1)
load_model(art) ==
    IF art.state = "missing"
    THEN Loaded(<<>>, <<"Error: Model file not found">>, <<1>>, NoModel)
    ELSE IF art.state = "corrupt"
    THEN Loaded(<<>>, <<"Error loading model">>, <<1>>, NoModel)
    ELSE Loaded(<<>>, <<>>, <<>>, Fitted(art.base))

\* input_df = pd.DataFrame([data], columns=FEATURES): a dict gives one row, NaN
\* where a key is absent; a list of len(FEATURES) scalars gives one row
WinFrame(data) ==
    IF data.kind = "object"
    THEN Ok([rows |-> <<Row(data.fv, data.numeric, FeatureSet \ data.keys)>>])
    ELSE IF /\ data.kind = "array"
            /\ Len(data.items) = Len(FEATURES)
            /\ \A i \in 1..Len(data.items) : data.items[i].kind = "scalar"
    THEN Ok([rows |-> <<Row(0, TRUE, {})>>])
    ELSE Raise("ValueError", "")

\* win_probability = prediction_probability[0][1]; prediction = model.predict(..)[0]
WinResult(p, q) == [prediction |-> p[1], win_probability |-> q[1][1]]

predict_win(m, data) ==
    LET fr == WinFrame(data) IN
    IF ~fr.ok THEN [ok |-> FALSE, called |-> FALSE, preds |-> <<>>, probs |-> <<>>]
    ELSE LET inf == Infer(m, fr.rows, FALSE) IN
         IF ~inf.ok
         THEN [ok |-> FALSE, called |-> m.loaded, preds |-> <<>>, probs |-> <<>>]
         ELSE [ok |-> TRUE, called |-> TRUE, preds |-> inf.preds, probs |-> inf.probs,
               result |-> WinResult(inf.preds, inf.probs)]

\* the __main__ block of the argv service
WinMain ==
    /\ pc = "idle"
    /\ \E arg \in {NoArg} \cup ArgPayloads, art \in ArtifactFiles :
         /\ prog' = "win"
         /\ stdin' = arg
         /\ artifact' = art
         /\ IF arg.kind = "noarg"
            THEN /\ stderr' = <<"Usage: python predict_service.py <json_data>">>
                 /\ exitCode' = <<1>>
                 /\ UNCHANGED <<model, stdout, modelCalled, preds, probs>>
            ELSE IF arg.kind = "invalid"
            THEN /\ stderr' = <<"Error: Invalid JSON input.">>
                 /\ exitCode' = <<1>>
                 /\ UNCHANGED <<model, stdout, modelCalled, preds, probs>>
            ELSE LET l == load_model(art) IN
                 IF l.exit # <<>>
                 THEN /\ stderr' = l.err
                      /\ exitCode' = l.exit
                      /\ UNCHANGED <<model, stdout, modelCalled, preds, probs>>
                 ELSE LET r == predict_win(l.model, arg) IN
                      /\ model' = l.model
                      /\ modelCalled' = r.called
                      /\ preds' = r.preds
                      /\ probs' = r.probs
                      /\ IF r.ok
                         THEN /\ stdout' = <<r.result>>
                              /\ exitCode' = <<0>>
                              /\ UNCHANGED stderr
                         ELSE /\ stderr' = <<"Error during prediction">>
                              /\ exitCode' = <<1>>
                              /\ UNCHANGED stdout
    /\ pc' = "exited"
    /\ UNCHANGED batchFlag
    /\ UNCHANGED trainVars
    /\ UNCHANGED teamVars

----------------------------------------------------------------------------
(* backend/data_collection/ml_model.py *)

\* Pipeline(steps=[('model', XGBClassifier(max_depth=max_depth, num_class=8, ..))])
Pipeline(max_depth) == [steps |-> <<"model">>, max_depth |-> max_depth, classes |-> Classes]

\* what get_accuracy does for one candidate: raises, or returns an accuracy
\* (accuracy_score scaled to 0..MaxAcc)
Outcomes ==
    {[raised |-> TRUE, accuracy |-> 0]}
    \cup {[raised |-> FALSE, accuracy |-> a] : a \in 0..MaxAcc}

IsBetterOrEqual(accuracy, best) == accuracy >= best

\* if accuracy > best_accuracy:
IsBetter(accuracy, best) == accuracy > best

\* if best_model_pipeline: None is false; a Pipeline is true iff len(steps) > 0
Truthy(p) == p # <<>> /\ Len(p[1].steps) > 0

\* print("Train/Validation Results:"), the three best_* assignments
TrainStart ==
    /\ pc = "idle"
    /\ prog' = "trainer"
    /\ pc' = "sweep"
    /\ sweepIdx' = 1
    /\ best_accuracy' = 0
    /\ best_max_depth' = 0
    /\ best_model_pipeline' = <<>>
    /\ UNCHANGED <<outcomes, dumps, log>>
    /\ UNCHANGED svcVars
    /\ UNCHANGED teamVars

\* one iteration of: for max_depth in [2, 4, 6, 8, 10]: try ... except: continue
SweepStep ==
    /\ prog = "trainer"
    /\ pc = "sweep"
    /\ \E o \in Outcomes :
         LET max_depth == MaxDepths[sweepIdx] IN
         /\ outcomes' = Append(outcomes, o)
         /\ IF ~o.raised /\ IsBetter(o.accuracy, best_accuracy)
            THEN /\ best_accuracy' = o.accuracy
                 /\ best_max_depth' = max_depth
                 /\ best_model_pipeline' = <<Pipeline(max_depth)>>
            ELSE UNCHANGED <<best_accuracy, best_max_depth, best_model_pipeline>>
    /\ sweepIdx' = sweepIdx + 1
    /\ pc' = IF sweepIdx = Len(MaxDepths) THEN "cv" ELSE "sweep"
    /\ UNCHANGED <<prog, dumps, log>>
    /\ UNCHANGED svcVars
    /\ UNCHANGED teamVars

\* the cross-validation loop: it prints, and every exception is caught
CrossValidation ==
    /\ prog = "trainer"
    /\ pc = "cv"
    /\ pc' = "save"
    /\ UNCHANGED prog
    /\ UNCHANGED trainVars
    /\ UNCHANGED svcVars
    /\ UNCHANGED teamVars

\* the save block
SaveModel ==
    /\ prog = "trainer"
    /\ pc = "save"
    /\ IF Truthy(best_model_pipeline)
       THEN /\ dumps' = Append(dumps, [file |-> "arena_win_predictor_model.joblib",
                                       obj |-> best_model_pipeline[1]])
            /\ log' = Append(log, "Trained model saved")
       ELSE /\ log' = Append(log, "No model was saved")
            /\ UNCHANGED dumps
    /\ pc' = "exited"
    /\ exitCode' = <<0>>
    /\ UNCHANGED <<prog, sweepIdx, best_accuracy, best_max_depth,
                   best_model_pipeline, outcomes>>
    /\ UNCHANGED <<artifact, batchFlag, stdin, model, stdout, stderr,
                   modelCalled, preds, probs>>
    /\ UNCHANGED teamVars

----------------------------------------------------------------------------
(* backend/data_collection/teamStats.py *)

\* identifiers of the CSV, in the order groupby sorts them
TeamMatchIds == <<"NA1_5330318261", "NA1_5330318262">>
TeamPlacements == <<1, 2>>
ChampionNames == {"Garen", "Mordekaiser"}

\* str(augment) values in Python's string order; an empty cell reads as nan
AugmentStrs == <<"Big Brain", "Executioner", "nan">>
\* two players' numbers (t) and augments
PlayerProfiles == {<<0, <<"Executioner", "Big Brain">>>>, <<1, <<"Big Brain", "nan">>>>}

\* the game duration is an attribute of the match
DurationOf(matchId) == IF matchId = TeamMatchIds[1] THEN 26 ELSE 31

\* one player row of the CSV; t stands for the player's numbers
PlayerRow(matchId, placement, championName, t, augs) ==
    [matchId |-> matchId, gameDurationMinutes |-> DurationOf(matchId),
     placement |-> placement, championName |-> championName,
     kills |-> t, deaths |-> 1 - t, assists |-> 2 * t,
     totalDamageDealtToChampions |-> 3 * t + 1, goldEarned |-> 5 * t + 2,
     augment1 |-> augs[1], augment2 |-> augs[2]]

PlayerRows ==
    {PlayerRow(TeamMatchIds[m], TeamPlacements[p], c, pr[1], pr[2]) :
        m \in 1..Len(TeamMatchIds), p \in 1..Len(TeamPlacements),
        c \in ChampionNames, pr \in PlayerProfiles}

\* what csv_content may be: text read_csv rejects, or up to MaxRows player rows
CsvContents(maxRows) ==
    {[ok |-> FALSE, rows |-> <<>>]}
    \cup UNION {{[ok |-> TRUE, rows |-> s] : s \in [1..n -> PlayerRows]} : n \in 0..maxRows}

\* the keys data.groupby(['matchId', 'placement']) iterates, sorted
GroupKeys ==
    [i \in 1..(Len(TeamMatchIds) * Len(TeamPlacements)) |->
        <<TeamMatchIds[((i - 1) \div Len(TeamPlacements)) + 1],
          TeamPlacements[((i - 1) % Len(TeamPlacements)) + 1]>>]

InGroup(row, key) == row.matchId = key[1] /\ row.placement = key[2]

\* the rows of one group, in the order of the data
Group(data, key) == SelectSeq(data, LAMBDA row : InGroup(row, key))

AugmentRank(a) == CHOOSE i \in 1..Len(AugmentStrs) : AugmentStrs[i] = a

\* sorted([...]) of strings
Sorted(strs) == SortSeq(strs, LAMBDA a, b : AugmentRank(a) < AugmentRank(b))

\* '-'.join(parts) and f"{a}-{b}", kept as the sequence of the parts
Join(parts) == parts

\* the combined_stats dict of one group of two rows
CombinedStats(key, group) ==
    LET player1 == group[1]
        player2 == group[2]
    IN [matchId |-> key[1],
        gameDurationMinutes |-> player1.gameDurationMinutes,
        placement |-> key[2],
        team_kills |-> player1.kills + player2.kills,
        team_deaths |-> player1.deaths + player2.deaths,
        team_assists |-> player1.assists + player2.assists,
        team_totalDamageDealtToChampions |->
            player1.totalDamageDealtToChampions + player2.totalDamageDealtToChampions,
        team_goldEarned |-> player1.goldEarned + player2.goldEarned,
        team_champion_pair |-> Join(<<player1.championName, player2.championName>>),
        team_augments |-> Join(Sorted(<<player1.augment1, player1.augment2,
                                        player2.augment1, player2.augment2>>))]

RECURSIVE TeamDataList(_, _, _)
\* for (matchId, placement), group in grouped_by_team: if len(group) == 2: append
TeamDataList(data, i, acc) ==
    IF i > Len(GroupKeys) THEN acc
    ELSE LET group == Group(data, GroupKeys[i]) IN
         TeamDataList(data, i + 1,
                      IF Len(group) = 2
                      THEN Append(acc, CombinedStats(GroupKeys[i], group))
                      ELSE acc)

\* combine_team_stats(csv_content): None when read_csv raises
combine_team_stats ==
    /\ pc = "idle"
    /\ \E content \in CsvContents(MaxRows) :
         /\ csv_content' = content
         /\ team_data' = IF content.ok THEN TeamDataList(content.rows, 1, <<>>)
                         ELSE <<>>
    /\ prog' = "teamStats"
    /\ pc' = "exited"
    /\ UNCHANGED svcVars
    /\ UNCHANGED trainVars

----------------------------------------------------------------------------

Init ==
    /\ prog = "none"
    /\ pc = "idle"
    /\ artifact = [state |-> "missing", base |-> 0]
    /\ batchFlag = FALSE
    /\ stdin = [kind |-> "none"]
    /\ model = NoModel
    /\ stdout = <<>>
    /\ stderr = <<>>
    /\ exitCode = <<>>
    /\ modelCalled = FALSE
    /\ preds = <<>>
    /\ probs = <<>>
    /\ sweepIdx = 1
    /\ best_accuracy = 0
    /\ best_max_depth = 0
    /\ best_model_pipeline = <<>>
    /\ outcomes = <<>>
    /\ dumps = <<>>
    /\ log = <<>>
    /\ csv_content = [ok |-> FALSE, rows |-> <<>>]
    /\ team_data = <<>>

Next ==
    \/ ServiceLoad
    \/ ServiceMain
    \/ WinMain
    \/ TrainStart
    \/ SweepStep
    \/ CrossValidation
    \/ SaveModel

Spec == Init /\ [][Next]_vars

NextTeam == combine_team_stats

SpecTeam == Init /\ [][NextTeam]_vars

----------------------------------------------------------------------------
(* Properties *)

Exited(p) == prog = p /\ pc = "exited"

LastDoc == stdout[Len(stdout)]

IsSuccess(doc) == "success" \in DOMAIN doc /\ doc.success

\* the stdin service ended after predict_single / predict_batch printed success
SingleSucceeded ==
    Exited("service") /\ ~batchFlag /\ stdout # <<>> /\ IsSuccess(LastDoc)

BatchSucceeded ==
    Exited("service") /\ batchFlag /\ stdout # <<>> /\ IsSuccess(LastDoc)

OmitsKey(v) == v.kind = "object" /\ v.keys # FeatureSet

\* C1: when the estimator predicts internal class k with probability vector
\* probs, predict_single and every entry of predict_batch report placement k + 1
\* (in 1..8) and confidence probs[k], the probability at the raw index k, so the
\* confidence lies in [0, 1] (here 0..Scale).
C1_PlacementAndConfidence ==
    /\ SingleSucceeded =>
         /\ Len(preds) = 1
         /\ LastDoc.placement = preds[1] + 1
         /\ LastDoc.placement \in 1..8
         /\ LastDoc.confidence = probs[1][preds[1]]
         /\ LastDoc.confidence \in 0..Scale
    /\ BatchSucceeded =>
         /\ Len(LastDoc.results) = Len(preds)
         /\ \A i \in 1..Len(LastDoc.results) :
              /\ LastDoc.results[i].placement = preds[i] + 1
              /\ LastDoc.results[i].placement \in 1..8
              /\ LastDoc.results[i].confidence = probs[i][preds[i]]
              /\ LastDoc.results[i].confidence \in 0..Scale

C1_Witness ==
    /\ BatchSucceeded
    /\ Len(LastDoc.results) = 2
    /\ preds[1] = 7
    /\ LastDoc.results[1].placement = 8
    /\ probs[1][7] # probs[1][0]

\* C2: in single mode a JSON object that omits one or more of the seven feature
\* keys gets exactly one document, success = false, whose error names a field
\* the object omits; it carries no placement and no confidence, nothing is
\* written to stderr and the process ends with status 0.
C2_SingleMissingKey ==
    (Exited("service") /\ ~batchFlag /\ OmitsKey(stdin)) =>
        /\ Len(stdout) = 1
        /\ stdout[1].success = FALSE
        /\ stdout[1].error.text = "Required feature missing from input data: "
        /\ stdout[1].error.detail \in FeatureSet \ stdin.keys
        /\ "placement" \notin DOMAIN stdout[1]
        /\ "confidence" \notin DOMAIN stdout[1]
        /\ stderr = <<>>
        /\ exitCode = <<0>>

C2_Witness ==
    /\ Exited("service") /\ ~batchFlag /\ OmitsKey(stdin)
    /\ "goldEarned" \notin stdin.keys
    /\ "kills" \notin stdin.keys
    /\ stdout[1].error.detail = "kills"

\* C3: a batch in which some item omits a feature key gets success = false with
\* an error naming a field that an item omits, and no results.
C3_BatchMissingKey ==
    (/\ Exited("service") /\ batchFlag /\ stdin.kind = "array"
     /\ \E i \in 1..Len(stdin.items) : OmitsKey(stdin.items[i])) =>
        /\ Len(stdout) = 1
        /\ stdout[1].success = FALSE
        /\ \E i \in 1..Len(stdin.items) :
             /\ OmitsKey(stdin.items[i])
             /\ stdout[1].error.detail \in FeatureSet \ stdin.items[i].keys
        /\ "results" \notin DOMAIN stdout[1]

\* C4: every invocation of the stdin service has written exactly one document
\* to standard output when the process ends, and no traceback.
C4_ExactlyOneDocument ==
    Exited("service") => (Len(stdout) = 1 /\ stderr = <<>>)

\* C5: when the artifact cannot be loaded (missing, or the load raises), either
\* service ends with a non-zero status, never calls the estimator and prints no
\* success or prediction document.
C5_LoadFailureIsFatal ==
    (prog \in {"service", "win"} /\ artifact.state # "ok") =>
        /\ ~modelCalled
        /\ ~model.loaded
        /\ pc = "exited"
        /\ Len(exitCode) = 1
        /\ exitCode[1] # 0
        /\ \A i \in 1..Len(stdout) :
             /\ ~IsSuccess(stdout[i])
             /\ DOMAIN stdout[i] = {"success", "error"}

C5_Witness ==
    /\ Exited("service")
    /\ artifact.state = "corrupt"
    /\ exitCode = <<1>>

\* C6: the trainer fits 8 classes on placement - 1 and every service that loads
\* its artifact reports, for internal class k, the placement k + 1 in 1..8 with
\* the probability of class k.
C6_LabelSpaceMatches ==
    /\ \A i \in 1..Len(dumps) :
         dumps[i].obj.classes = {p - 1 : p \in 1..8}
    /\ SingleSucceeded =>
         /\ LastDoc.placement = preds[1] + 1
         /\ LastDoc.placement \in 1..8
         /\ LastDoc.confidence = probs[1][preds[1]]
    /\ (Exited("win") /\ exitCode = <<0>>) =>
         /\ stdout[1].prediction = preds[1] + 1
         /\ stdout[1].prediction \in 1..8
         /\ stdout[1].win_probability = probs[1][preds[1]]

\* C7: when predict_batch succeeds on n items, results has n entries, entry i
\* is the estimator's prediction for item i, and entry i's matchId is item i's
\* matchId, or null when the item has none.
C7_OrderAndMatchId ==
    BatchSucceeded =>
        /\ stdin.kind = "array"
        /\ Len(LastDoc.results) = Len(stdin.items)
        /\ \A i \in 1..Len(stdin.items) :
             LET item == stdin.items[i]
                 k == Classify(model, Row(item.fv, TRUE, FeatureSet \ item.keys))
             IN /\ LastDoc.results[i].matchId =
                     (IF item.matchId = Absent THEN Null ELSE item.matchId)
                /\ LastDoc.results[i].placement = k + 1
                /\ LastDoc.results[i].confidence =
                     Proba(model, Row(item.fv, TRUE, FeatureSet \ item.keys))[k]

C7_Witness ==
    /\ BatchSucceeded
    /\ Len(stdin.items) = 2
    /\ stdin.items[1].matchId = Absent
    /\ stdin.items[2].matchId = "m2"
    /\ LastDoc.results[1].matchId = Null
    /\ LastDoc.results[2].matchId = "m2"
    /\ LastDoc.results[1].placement # LastDoc.results[2].placement

\* C8: predict_batch prints one document: success = true with one result per
\* item, or success = false with an error and no results field.
C8_AllOrNothing ==
    (Exited("service") /\ batchFlag /\ stdin.kind \in {"array", "object", "scalar"}) =>
        /\ Len(stdout) = 1
        /\ \/ /\ stdout[1].success = TRUE
              /\ DOMAIN stdout[1] = {"success", "results"}
              /\ stdin.kind = "array"
              /\ Len(stdout[1].results) = Len(stdin.items)
           \/ /\ stdout[1].success = FALSE
              /\ DOMAIN stdout[1] = {"success", "error"}

C8_Witness ==
    /\ Exited("service") /\ batchFlag /\ stdin.kind = "array"
    /\ Len(stdin.items) = 2
    /\ stdin.items[1].kind = "object" /\ stdin.items[1].numeric
    /\ stdin.items[1].keys = FeatureSet
    /\ stdin.items[2].kind = "object" /\ ~stdin.items[2].numeric
    /\ modelCalled
    /\ stdout[1].success = FALSE

\* C9: predict_batch on the empty array prints success = true with an empty
\* results list.
C9_EmptyBatchSucceeds ==
    (Exited("service") /\ batchFlag /\ stdin.kind = "array" /\ Len(stdin.items) = 0) =>
        stdout = <<[success |-> TRUE, results |-> <<>>]>>

\* the candidates that returned an accuracy above the initial best of 0
Selectable == {i \in 1..Len(outcomes) : ~outcomes[i].raised /\ outcomes[i].accuracy > 0}

\* the first candidate of highest accuracy
BestCandidate ==
    CHOOSE i \in Selectable :
        \A j \in Selectable :
            \/ outcomes[j].accuracy < outcomes[i].accuracy
            \/ (outcomes[j].accuracy = outcomes[i].accuracy /\ i <= j)

\* C10: no artifact is written before the sweep is over; when the trainer ends
\* with no candidate selected (all raised or none above accuracy 0) nothing was
\* written and 'No model was saved' was printed; otherwise exactly one write
\* happened and it holds the first candidate of highest accuracy.
C10_PersistOrSayNot ==
    /\ (prog = "trainer" /\ pc # "exited") => (dumps = <<>> /\ log = <<>>)
    /\ Exited("trainer") =>
         /\ Len(outcomes) = Len(MaxDepths)
         /\ IF Selectable = {}
            THEN dumps = <<>> /\ log = <<"No model was saved">>
            ELSE /\ Len(dumps) = 1
                 /\ dumps[1].file = "arena_win_predictor_model.joblib"
                 /\ dumps[1].obj.max_depth = MaxDepths[BestCandidate]
                 /\ log = <<"Trained model saved">>

C10_Witness ==
    /\ Exited("trainer")
    /\ outcomes[1].raised
    /\ ~outcomes[2].raised /\ outcomes[2].accuracy = 0
    /\ \A i \in 3..Len(outcomes) : outcomes[i].raised
    /\ dumps = <<>>
    /\ log = <<"No model was saved">>

\* the input with the rows of every group in the opposite order
Swapped(data) == [i \in 1..Len(data) |-> data[Len(data) + 1 - i]]

TeamRowsOf(key) == {i \in 1..Len(team_data) :
                      team_data[i].matchId = key[1] /\ team_data[i].placement = key[2]}

\* C11: every (matchId, placement) group of exactly two player rows gives
\* exactly one team row, and that row is the same when the two players' rows
\* come in the other order (sums, team_augments and team_champion_pair alike);
\* a group of any other size gives no team row.
C11_TeamRowOrderIndependent ==
    (Exited("teamStats") /\ csv_content.ok) =>
        \A k \in 1..Len(GroupKeys) :
            LET group == Group(csv_content.rows, GroupKeys[k])
                other == Group(Swapped(csv_content.rows), GroupKeys[k])
            IN IF Len(group) = 2
               THEN /\ Cardinality(TeamRowsOf(GroupKeys[k])) = 1
                    /\ other = <<group[2], group[1]>>
                    /\ \A i \in TeamRowsOf(GroupKeys[k]) :
                         team_data[i] = CombinedStats(GroupKeys[k], other)
               ELSE TeamRowsOf(GroupKeys[k]) = {}

====
